---- MODULE Spec2Model ----
(***************************************************************************)
(* LogCabin example programs: the leader-failover consistency test         *)
(* (src/unnamed/part_000) and the read-after-write consistency loop        *)
(* (src/Examples/ConsistencyTest.cc), and the benchmark                    *)
(* (src/unnamed/part_001).                                                 *)
(*                                                                         *)
(* A std::string is a sequence of one-character strings.  The client       *)
(* library (Cluster, Tree) is outside the programs: each call to it is a   *)
(* step of the calling program whose result is chosen among the results    *)
(* the call can have (a value, or a LogCabin::Client::Exception).          *)
(***************************************************************************)
EXTENDS Integers, Sequences, FiniteSets

VARIABLES
    \* ---- failover test, src/unnamed/part_000 ----
    cluster,         \* options.cluster
    pc,              \* position of main
    oldLeaderPort,   \* main's oldLeaderPort
    hosts,           \* main's hosts vector (lines 262-266)
    cluster2str,     \* main's cluster2str
    lpHosts,         \* leaderPort's hosts vector
    lpIdx,           \* leaderPort's position in lpHosts (0: not in a call)
    handle,          \* cluster1, cluster2, cluster3: state and address string
    leaderPort3,     \* main's leaderPort3
    contents,        \* main's contents
    outcome,         \* how the process ended, "running" before that
    trace,           \* history: the client calls made, the stats queries
                     \* that returned left out
    discovered,      \* history: "pending", "leader" or "none" (Discover)
    leaderHostPort,  \* history: the hostPortStr that answered LEADER then
    awaitLeaderSeen, \* history: a member of cluster2 answered LEADER
    verifyReply,     \* history: the answer of the direct query of cluster3
    \* ---- consistency loop, src/Examples/ConsistencyTest.cc ----
    loopPc,          \* position of main
    i,               \* the loop variable
    loopHandles,     \* every Cluster object constructed so far
    stored,          \* values the service has accepted, oldest first
    loopContents,    \* main's contents
    loopOutcome,     \* how the process ended, "running" before that
    \* ---- benchmark, src/unnamed/part_001 ----
    threads,         \* options.threads
    totalOperations, \* options.totalOperations
    operationType,   \* options.operationType
    timeout,         \* options.timeout
    exit,            \* main's std::atomic<bool> exit
    operationsDonePerThread,
    totalOperationsDone,
    startNanos,      \* main's startNanos
    endNanos,        \* main's endNanos
    mainPc,          \* position of main
    mainI,           \* the loop variable of main's two loops
    workerPc,        \* position of each operationThreadMain
    numOperations,   \* operationThreadMain's numOperations, per thread
    workerI,         \* operationThreadMain's i, per thread
    timerPc,         \* position of timerThreadMain
    timerStart,      \* timerThreadMain's start
    now,             \* the clock timeNanos reads
    benchOutcome,    \* how the process ended, "running" before that
    completed,       \* history: operations that returned, per thread
    sawExit,         \* history: the thread read exit = true in its loop
    exitSetBy,       \* history: who stored true into exit
    keyRemoved,      \* history: removeFile was called
    lastResult,      \* how the latest operation of each thread returned
    opsPerSecFileName, \* options.opsPerSecFileName
    opsPerSecFile,   \* what main wrote to that file
    lateOperations,  \* history: operations made while exit was true
    \* ---- the host:port list functions alone, src/unnamed/part_000 ----
    listInput,       \* the string given to parseHostPortList
    listPc,          \* which of the functions have been applied
    listHosts,       \* what parseHostPortList returned
    listBad,         \* the item the PANIC of parseHostPortList names
    listJoined,      \* what joinHostPortList returned for listHosts
    listReparsed,    \* what parseHostPortList returned for listJoined
    listExcluded,    \* the port given to the erase/remove_if of main
    listRemaining    \* listHosts after the erase/remove_if

failoverVars == <<cluster, pc, oldLeaderPort, hosts, cluster2str, lpHosts,
                  lpIdx, handle, leaderPort3, contents, outcome, trace,
                  discovered, leaderHostPort, awaitLeaderSeen, verifyReply>>

loopVars == <<loopPc, i, loopHandles, stored, loopContents, loopOutcome>>

benchVars == <<threads, totalOperations, operationType, timeout, exit,
               operationsDonePerThread, totalOperationsDone, startNanos,
               endNanos, mainPc, mainI, workerPc, numOperations, workerI,
               timerPc, timerStart, now, benchOutcome, completed, sawExit,
               exitSetBy, keyRemoved, lastResult, opsPerSecFileName,
               opsPerSecFile, lateOperations>>

listVars == <<listInput, listPc, listHosts, listBad, listJoined,
              listReparsed, listExcluded, listRemaining>>

vars == <<failoverVars, loopVars, benchVars, listVars>>

\* the variables a program leaves alone: those of the other programs
notFailoverVars == <<loopVars, benchVars, listVars>>

notLoopVars == <<failoverVars, benchVars, listVars>>

notBenchVars == <<failoverVars, loopVars, listVars>>

notListVars == <<failoverVars, loopVars, benchVars>>

-----------------------------------------------------------------------------
(* Bounds *)

\* longest --cluster list drawn as input of the failover test
MaxServers == 2

\* largest --threads and --operations drawn as input of the benchmark
MaxThreads == 2

MaxOperations == 2

\* largest --timeout drawn, and the latest time the clock shows
MaxTimeout == 0

MaxNow == 1

\* largest --threads and --operations drawn when only the quotas are computed
MaxSplitThreads == 4

MaxSplitOperations == 9

\* longest string of arbitrary characters, and longest list of items, drawn
\* as input of parseHostPortList alone
MaxLen == 4

MaxItems == 3

-----------------------------------------------------------------------------
(* Strings *)

EmptyStr == <<>>

Localhost == <<"l", "o", "c", "a", "l", "h", "o", "s", "t">>

\* host names and port strings the inputs of the failover test are built
\* from; a server listens on a port, so the port strings are not empty
Hosts == {Localhost, <<"h">>}

Ports == {<<"1">>, <<"2">>}

\* index of the first occurrence of character c in s, 0 if there is none
\* (std::string::find)
Find(s, c) ==
    IF \E k \in 1..Len(s) : s[k] = c
    THEN CHOOSE k \in 1..Len(s) : s[k] = c /\ \A j \in 1..(k - 1) : s[j] # c
    ELSE 0

\* the items std::getline(stream, item, ',') yields until it fails
RECURSIVE GetLines(_)
GetLines(s) ==
    IF s = EmptyStr THEN <<>>
    ELSE LET k == Find(s, ",")
         IN  IF k = 0 THEN <<s>>
             ELSE <<SubSeq(s, 1, k - 1)>> \o GetLines(SubSeq(s, k + 1, Len(s)))

\* mutant of ParseItems: an item without a colon is passed over
RECURSIVE ParseItems_SkipBad(_, _)
ParseItems_SkipBad(items, result) ==
    IF items = <<>> THEN [ok |-> TRUE, list |-> result, bad |-> EmptyStr]
    ELSE LET item == Head(items)
             colonPos == Find(item, ":")
         IN  IF colonPos # 0
             THEN ParseItems_SkipBad(Tail(items),
                      Append(result,
                          [host |-> SubSeq(item, 1, colonPos - 1),
                           port |-> SubSeq(item, colonPos + 1, Len(item))]))
             ELSE ParseItems_SkipBad(Tail(items), result)

\* parseHostPortList: ok = FALSE is the PANIC, bad the item it names
RECURSIVE ParseItems(_, _)
ParseItems(items, result) ==
    IF items = <<>> THEN [ok |-> TRUE, list |-> result, bad |-> EmptyStr]
    ELSE LET item == Head(items)
             colonPos == Find(item, ":")
         IN  IF colonPos # 0
             THEN ParseItems(Tail(items),
                      Append(result,
                          [host |-> SubSeq(item, 1, colonPos - 1),
                           port |-> SubSeq(item, colonPos + 1, Len(item))]))
             ELSE [ok |-> FALSE, list |-> <<>>, bad |-> item]

parseHostPortList(input) == ParseItems(GetLines(input), <<>>)

\* mutant of joinHostPortList: no comma between the pairs
RECURSIVE joinHostPortList_NoComma(_)
joinHostPortList_NoComma(hs) ==
    IF hs = <<>> THEN EmptyStr
    ELSE Head(hs).host \o <<":">> \o Head(hs).port
         \o joinHostPortList_NoComma(Tail(hs))

RECURSIVE joinHostPortList(_)
joinHostPortList(hs) ==
    IF hs = <<>> THEN EmptyStr
    ELSE Head(hs).host \o <<":">> \o Head(hs).port
         \o (IF Len(hs) # 1 THEN <<",">> ELSE EmptyStr)
         \o joinHostPortList(Tail(hs))

\* mutant of RemovePort: only the first element whose port is p is dropped
RECURSIVE RemovePort_FirstOnly(_, _)
RemovePort_FirstOnly(hs, p) ==
    IF hs = <<>> THEN <<>>
    ELSE IF Head(hs).port = p THEN Tail(hs)
         ELSE <<Head(hs)>> \o RemovePort_FirstOnly(Tail(hs), p)

\* the erase/remove_if idiom of main: drops every element whose port is p
RECURSIVE RemovePort(_, _)
RemovePort(hs, p) ==
    IF hs = <<>> THEN <<>>
    ELSE (IF Head(hs).port = p THEN <<>> ELSE <<Head(hs)>>)
         \o RemovePort(Tail(hs), p)

\* comma-join of raw items, used to build the inputs
RECURSIVE JoinItems(_)
JoinItems(items) ==
    IF items = <<>> THEN EmptyStr
    ELSE Head(items) \o (IF Len(items) # 1 THEN <<",">> ELSE EmptyStr)
         \o JoinItems(Tail(items))

\* the items of a --cluster argument: host:port, or a host without a port
ClusterItems == {h \o <<":">> \o p : h \in Hosts, p \in Ports} \cup {<<"h">>}

ClusterInputs ==
    {JoinItems(l) : l \in UNION {[1..n -> ClusterItems] : n \in 0..MaxServers}}

-----------------------------------------------------------------------------
(* The client library, as seen by the programs *)

\* answers of getServerStatsEx that return: the raft state of the server
StatsReplies == {"LEADER", "FOLLOWER"}

\* ways debugMakePartition ends: the injection is acknowledged, or it times
\* out, which the caller gets as a LogCabin::Client::Exception
DebugMakePartitionResults == {"acknowledged", "timeout"}

\* values readEx can return for the test key of the failover test
ReadValues == {"foo", "bar"}

-----------------------------------------------------------------------------
(* Failover test: src/unnamed/part_000 *)

Event(op, h, arg, res) == [op |-> op, h |-> h, arg |-> arg, res |-> res]

NoHandles == [h \in 1..3 |-> [state |-> "unopened", addr |-> EmptyStr]]

\* Cluster constructor / destructor of cluster<h>
Opened(h, addr) == [handle EXCEPT ![h] = [state |-> "open", addr |-> addr]]

Closed(h) == [handle EXCEPT ![h].state = "closed"]

\* stack unwinding destroys the Cluster objects that are alive
Unwound ==
    [h \in 1..3 |->
        IF handle[h].state = "open"
        THEN [handle[h] EXCEPT !.state = "closed"] ELSE handle[h]]

InitFailover ==
    /\ cluster \in ClusterInputs
    /\ pc = "setupLatency"
    /\ oldLeaderPort = EmptyStr
    /\ hosts = <<>>
    /\ cluster2str = EmptyStr
    /\ lpHosts = <<>>
    /\ lpIdx = 0
    /\ handle = NoHandles
    /\ leaderPort3 = EmptyStr
    /\ contents = "unread"
    /\ outcome = "running"
    /\ trace = <<>>
    /\ discovered = "pending"
    /\ leaderHostPort = EmptyStr
    /\ awaitLeaderSeen = FALSE
    /\ verifyReply = "none"

\* PANIC: abort(), no unwinding, no exit handlers
Panic ==
    /\ outcome' = "abort"
    /\ pc' = "exited"
    /\ UNCHANGED <<cluster, oldLeaderPort, hosts, cluster2str, lpHosts, lpIdx,
                   handle, leaderPort3, contents, trace, discovered, leaderHostPort,
                   awaitLeaderSeen, verifyReply>>

\* mutant of CatchException: the catch clause exits with status 2
CatchException_Status2(ev) ==
    /\ outcome' = "exit2"
    /\ pc' = "exited"
    /\ handle' = Unwound
    /\ trace' = trace \o ev
    /\ lpIdx' = 0
    /\ UNCHANGED <<cluster, oldLeaderPort, hosts, cluster2str, lpHosts,
                   leaderPort3, contents, discovered, leaderHostPort, awaitLeaderSeen,
                   verifyReply>>

\* the catch clause of main: a client exception thrown by the call ev
CatchException(ev) ==
    /\ outcome' = "exit1"
    /\ pc' = "exited"
    /\ handle' = Unwound
    /\ trace' = trace \o ev
    /\ lpIdx' = 0
    /\ UNCHANGED <<cluster, oldLeaderPort, hosts, cluster2str, lpHosts,
                   leaderPort3, contents, discovered, leaderHostPort, awaitLeaderSeen,
                   verifyReply>>

\* setupLatency: parses the list; executeCommand does nothing
SetupLatency ==
    /\ pc = "setupLatency"
    /\ UNCHANGED notFailoverVars
    /\ IF parseHostPortList(cluster).ok
       THEN /\ pc' = "cluster1"
            /\ UNCHANGED <<cluster, oldLeaderPort, hosts, cluster2str,
                           lpHosts, lpIdx, handle, leaderPort3, contents,
                           outcome, trace, discovered, leaderHostPort, awaitLeaderSeen,
                           verifyReply>>
       ELSE Panic

OpenCluster1 ==
    /\ pc = "cluster1"
    /\ UNCHANGED notFailoverVars
    /\ handle' = Opened(1, cluster)
    /\ trace' = Append(trace, Event("open", 1, cluster, "ok"))
    /\ pc' = "discover"
    /\ UNCHANGED <<cluster, oldLeaderPort, hosts, cluster2str, lpHosts, lpIdx,
                   leaderPort3, contents, outcome, discovered, leaderHostPort,
                   awaitLeaderSeen, verifyReply>>

\* the handle and the address string of the leaderPort call main is at
LeaderPortHandle == CASE pc = "discover" -> 1 [] pc = "await" -> 2 [] OTHER -> 3

LeaderPortArg ==
    CASE pc = "discover" -> cluster
      [] pc = "await" -> cluster2str
      [] OTHER -> Localhost \o <<":">> \o oldLeaderPort

\* leaderPort, line 215
LeaderPortCall ==
    /\ pc \in {"discover", "await", "verify"}
    /\ UNCHANGED notFailoverVars
    /\ lpIdx = 0
    /\ IF parseHostPortList(LeaderPortArg).ok
       THEN /\ lpHosts' = parseHostPortList(LeaderPortArg).list
            /\ lpIdx' = 1
            /\ UNCHANGED <<cluster, pc, oldLeaderPort, hosts, cluster2str,
                           handle, leaderPort3, contents, outcome, trace,
                           discovered, leaderHostPort, awaitLeaderSeen, verifyReply>>
       ELSE Panic

\* main, lines 253-255: the result of Discover is taken as it is
DiscoverReturn(ret, found) ==
    /\ oldLeaderPort' = ret
    /\ discovered' = IF found THEN "leader" ELSE "none"
    /\ leaderHostPort' = IF found
                         THEN lpHosts[lpIdx].host \o <<":">>
                                  \o lpHosts[lpIdx].port
                         ELSE EmptyStr
    /\ pc' = "mkdir"
    /\ lpIdx' = 0
    /\ UNCHANGED <<cluster, hosts, cluster2str, lpHosts, handle, leaderPort3,
                   contents, outcome, trace, awaitLeaderSeen, verifyReply>>

\* mutant of AwaitReturn: the loop is left without a look at the result
AwaitReturn_NoCheck(ret, found) ==
    /\ awaitLeaderSeen' = (awaitLeaderSeen \/ found)
    /\ pc' = "writeBar"
    /\ lpIdx' = 0
    /\ UNCHANGED <<cluster, oldLeaderPort, hosts, cluster2str, lpHosts,
                   handle, leaderPort3, contents, outcome, trace, discovered, leaderHostPort,
                   verifyReply>>

\* main, lines 277-283: leave the loop on a non-empty result, else sleep
AwaitReturn(ret, found) ==
    /\ awaitLeaderSeen' = (awaitLeaderSeen \/ found)
    /\ pc' = IF ret # EmptyStr THEN "writeBar" ELSE "sleep"
    /\ lpIdx' = 0
    /\ UNCHANGED <<cluster, oldLeaderPort, hosts, cluster2str, lpHosts,
                   handle, leaderPort3, contents, outcome, trace, discovered, leaderHostPort,
                   verifyReply>>

\* main, line 294
VerifyReturn(ret, found) ==
    /\ leaderPort3' = ret
    /\ pc' = "check3"
    /\ lpIdx' = 0
    /\ verifyReply' = IF found THEN "LEADER" ELSE verifyReply
    /\ UNCHANGED <<cluster, oldLeaderPort, hosts, cluster2str, lpHosts,
                   handle, contents, outcome, trace, discovered, leaderHostPort,
                   awaitLeaderSeen>>

LeaderPortReturn(ret, found) ==
    CASE pc = "discover" -> DiscoverReturn(ret, found)
      [] pc = "await" -> AwaitReturn(ret, found)
      [] OTHER -> VerifyReturn(ret, found)

\* leaderPort, lines 217-228: one getServerStatsEx and the test of its answer
LeaderPortQuery ==
    /\ pc \in {"discover", "await", "verify"}
    /\ UNCHANGED notFailoverVars
    /\ lpIdx \in 1..Len(lpHosts)
    /\ \E reply \in StatsReplies \cup {"exception"} :
          CASE reply = "exception" ->
                   CatchException(
                       <<Event("stats", LeaderPortHandle,
                               lpHosts[lpIdx].host \o <<":">>
                                   \o lpHosts[lpIdx].port,
                               reply)>>)
            [] reply = "LEADER" ->
                   LeaderPortReturn(lpHosts[lpIdx].port, TRUE)
            [] OTHER ->
                   /\ lpIdx' = lpIdx + 1
                   /\ verifyReply' = IF pc = "verify" THEN reply
                                     ELSE verifyReply
                   /\ UNCHANGED <<cluster, pc, oldLeaderPort, hosts,
                                  cluster2str, lpHosts, handle, leaderPort3,
                                  contents, outcome, trace, discovered, leaderHostPort,
                                  awaitLeaderSeen>>

\* leaderPort, line 230
LeaderPortEnd ==
    /\ pc \in {"discover", "await", "verify"}
    /\ UNCHANGED notFailoverVars
    /\ lpIdx = Len(lpHosts) + 1
    /\ LeaderPortReturn(EmptyStr, FALSE)

\* main, lines 256-257: getTree and makeDirectoryEx
MakeDirectory ==
    /\ pc = "mkdir"
    /\ UNCHANGED notFailoverVars
    /\ \E res \in {"ok", "exception"} :
          IF res = "exception"
          THEN CatchException(<<Event("makeDirectory", 1, "dir", res)>>)
          ELSE /\ trace' = Append(trace, Event("makeDirectory", 1, "dir", res))
               /\ pc' = "writeFoo"
               /\ UNCHANGED <<cluster, oldLeaderPort, hosts, cluster2str,
                              lpHosts, lpIdx, handle, leaderPort3, contents,
                              outcome, discovered, leaderHostPort, awaitLeaderSeen,
                              verifyReply>>

\* main, line 258
WriteFoo ==
    /\ pc = "writeFoo"
    /\ UNCHANGED notFailoverVars
    /\ \E res \in {"ok", "exception"} :
          IF res = "exception"
          THEN CatchException(<<Event("write", 1, "foo", res)>>)
          ELSE /\ trace' = Append(trace, Event("write", 1, "foo", res))
               /\ pc' = "partition"
               /\ UNCHANGED <<cluster, oldLeaderPort, hosts, cluster2str,
                              lpHosts, lpIdx, handle, leaderPort3, contents,
                              outcome, discovered, leaderHostPort, awaitLeaderSeen,
                              verifyReply>>

\* mutant of PartitionServer: a failed injection is swallowed
PartitionServer_IgnoresTimeout ==
    /\ pc = "partition"
    /\ UNCHANGED notFailoverVars
    /\ \E res \in DebugMakePartitionResults :
          /\ trace' = Append(trace,
                          Event("partition", 1,
                                Localhost \o <<":">> \o oldLeaderPort, res))
          /\ pc' = "remaining"
          /\ UNCHANGED <<cluster, oldLeaderPort, hosts, cluster2str, lpHosts,
                         lpIdx, handle, leaderPort3, contents, outcome,
                         discovered, leaderHostPort, awaitLeaderSeen, verifyReply>>

\* main, line 259, and partitionServer
PartitionServer ==
    /\ pc = "partition"
    /\ UNCHANGED notFailoverVars
    /\ LET targetHostPort == Localhost \o <<":">> \o oldLeaderPort
       IN  \E res \in DebugMakePartitionResults :
              IF res = "timeout"
              THEN CatchException(
                       <<Event("partition", 1, targetHostPort, res)>>)
              ELSE /\ trace' = Append(trace,
                                   Event("partition", 1, targetHostPort, res))
                   /\ pc' = "remaining"
                   /\ UNCHANGED <<cluster, oldLeaderPort, hosts, cluster2str,
                                  lpHosts, lpIdx, handle, leaderPort3,
                                  contents, outcome, discovered, leaderHostPort,
                                  awaitLeaderSeen, verifyReply>>

\* main, lines 260-269: cluster1 goes out of scope, the remaining hosts
Remaining ==
    /\ pc = "remaining"
    /\ UNCHANGED notFailoverVars
    /\ IF parseHostPortList(cluster).ok
       THEN /\ hosts' = RemovePort(parseHostPortList(cluster).list,
                                   oldLeaderPort)
            /\ cluster2str' = joinHostPortList(hosts')
            /\ handle' = Closed(1)
            /\ trace' = Append(trace, Event("close", 1, cluster, "ok"))
            /\ pc' = "cluster2"
            /\ UNCHANGED <<cluster, oldLeaderPort, lpHosts, lpIdx,
                           leaderPort3, contents, outcome, discovered, leaderHostPort,
                           awaitLeaderSeen, verifyReply>>
       ELSE Panic

\* main, line 272
OpenCluster2 ==
    /\ pc = "cluster2"
    /\ UNCHANGED notFailoverVars
    /\ handle' = Opened(2, cluster2str)
    /\ trace' = Append(trace, Event("open", 2, cluster2str, "ok"))
    /\ pc' = "await"
    /\ UNCHANGED <<cluster, oldLeaderPort, hosts, cluster2str, lpHosts, lpIdx,
                   leaderPort3, contents, outcome, discovered, leaderHostPort,
                   awaitLeaderSeen, verifyReply>>

\* main, line 283, and the jump back to line 277
Sleep ==
    /\ pc = "sleep"
    /\ UNCHANGED notFailoverVars
    /\ pc' = "await"
    /\ UNCHANGED <<cluster, oldLeaderPort, hosts, cluster2str, lpHosts, lpIdx,
                   handle, leaderPort3, contents, outcome, trace, discovered, leaderHostPort,
                   awaitLeaderSeen, verifyReply>>

\* mutant of WriteBar: cluster2 is not destroyed after the write
WriteBar_KeepsHandle ==
    /\ pc = "writeBar"
    /\ UNCHANGED notFailoverVars
    /\ \E res \in {"ok", "exception"} :
          IF res = "exception"
          THEN CatchException(<<Event("write", 2, "bar", res)>>)
          ELSE /\ trace' = Append(trace, Event("write", 2, "bar", res))
               /\ pc' = "cluster3"
               /\ UNCHANGED <<cluster, oldLeaderPort, hosts, cluster2str,
                              lpHosts, lpIdx, handle, leaderPort3, contents,
                              outcome, discovered, leaderHostPort, awaitLeaderSeen,
                              verifyReply>>

\* main, lines 286-289: the write through cluster2, then cluster2 goes out
\* of scope
WriteBar ==
    /\ pc = "writeBar"
    /\ UNCHANGED notFailoverVars
    /\ \E res \in {"ok", "exception"} :
          IF res = "exception"
          THEN CatchException(<<Event("write", 2, "bar", res)>>)
          ELSE /\ trace' = trace \o <<Event("write", 2, "bar", res),
                                      Event("close", 2, cluster2str, "ok")>>
               /\ handle' = Closed(2)
               /\ pc' = "cluster3"
               /\ UNCHANGED <<cluster, oldLeaderPort, hosts, cluster2str,
                              lpHosts, lpIdx, leaderPort3, contents, outcome,
                              discovered, leaderHostPort, awaitLeaderSeen, verifyReply>>

\* main, line 292
OpenCluster3 ==
    /\ pc = "cluster3"
    /\ UNCHANGED notFailoverVars
    /\ LET addr == Localhost \o <<":">> \o oldLeaderPort
       IN  /\ handle' = Opened(3, addr)
           /\ trace' = Append(trace, Event("open", 3, addr, "ok"))
    /\ pc' = "verify"
    /\ UNCHANGED <<cluster, oldLeaderPort, hosts, cluster2str, lpHosts, lpIdx,
                   leaderPort3, contents, outcome, discovered, leaderHostPort,
                   awaitLeaderSeen, verifyReply>>

\* mutant of CheckLeader3: the comparison is inverted
CheckLeader3_Inverted ==
    /\ pc = "check3"
    /\ UNCHANGED notFailoverVars
    /\ IF leaderPort3 = oldLeaderPort
       THEN /\ outcome' = "exit2"
            /\ pc' = "exited"
       ELSE /\ pc' = "read"
            /\ UNCHANGED outcome
    /\ UNCHANGED <<cluster, oldLeaderPort, hosts, cluster2str, lpHosts, lpIdx,
                   handle, leaderPort3, contents, trace, discovered, leaderHostPort,
                   awaitLeaderSeen, verifyReply>>

\* main, lines 295-299: exit(2) runs no destructor
CheckLeader3 ==
    /\ pc = "check3"
    /\ UNCHANGED notFailoverVars
    /\ IF leaderPort3 # oldLeaderPort
       THEN /\ outcome' = "exit2"
            /\ pc' = "exited"
       ELSE /\ pc' = "read"
            /\ UNCHANGED outcome
    /\ UNCHANGED <<cluster, oldLeaderPort, hosts, cluster2str, lpHosts, lpIdx,
                   handle, leaderPort3, contents, trace, discovered, leaderHostPort,
                   awaitLeaderSeen, verifyReply>>

\* main, line 301
ReadContents ==
    /\ pc = "read"
    /\ UNCHANGED notFailoverVars
    /\ \/ CatchException(<<Event("read", 3, "none", "exception")>>)
       \/ \E v \in ReadValues :
             /\ contents' = v
             /\ trace' = Append(trace, Event("read", 3, v, "ok"))
             /\ pc' = "compare"
             /\ UNCHANGED <<cluster, oldLeaderPort, hosts, cluster2str,
                            lpHosts, lpIdx, handle, leaderPort3, outcome,
                            discovered, leaderHostPort, awaitLeaderSeen, verifyReply>>

\* main, lines 303-307 and 313: the notice, then main returns
CompareContents ==
    /\ pc = "compare"
    /\ UNCHANGED notFailoverVars
    /\ outcome' = "exit0"
    /\ pc' = "exited"
    /\ handle' = Closed(3)
    /\ trace' = trace
                 \o (IF contents # "bar"
                     THEN <<Event("notice", 3, contents, "violation")>>
                     ELSE <<>>)
                 \o <<Event("close", 3, handle[3].addr, "ok")>>
    /\ UNCHANGED <<cluster, oldLeaderPort, hosts, cluster2str, lpHosts, lpIdx,
                   leaderPort3, contents, discovered, leaderHostPort, awaitLeaderSeen,
                   verifyReply>>

NextFailover ==
    \/ SetupLatency
    \/ OpenCluster1
    \/ LeaderPortCall
    \/ LeaderPortQuery
    \/ LeaderPortEnd
    \/ MakeDirectory
    \/ WriteFoo
    \/ PartitionServer
    \/ Remaining
    \/ OpenCluster2
    \/ Sleep
    \/ WriteBar
    \/ OpenCluster3
    \/ CheckLeader3
    \/ ReadContents
    \/ CompareContents

\* the failover test is not running
FailoverOff ==
    /\ cluster = EmptyStr
    /\ pc = "off"
    /\ oldLeaderPort = EmptyStr
    /\ hosts = <<>>
    /\ cluster2str = EmptyStr
    /\ lpHosts = <<>>
    /\ lpIdx = 0
    /\ handle = NoHandles
    /\ leaderPort3 = EmptyStr
    /\ contents = "unread"
    /\ outcome = "off"
    /\ trace = <<>>
    /\ discovered = "pending"
    /\ leaderHostPort = EmptyStr
    /\ awaitLeaderSeen = FALSE
    /\ verifyReply = "none"

-----------------------------------------------------------------------------
(* Consistency loop: src/Examples/ConsistencyTest.cc *)

\* the loop bound of main
Rounds == 10

Digits == <<"0", "1", "2", "3", "4", "5", "6", "7", "8", "9">>

\* std::to_string of a non-negative int
RECURSIVE to_string(_)
to_string(n) ==
    IF n < 10 THEN <<Digits[n + 1]>>
    ELSE to_string(n \div 10) \o <<Digits[(n % 10) + 1]>>

\* the Cluster object named cluster in the scope main is in
Current == Len(loopHandles)

\* a call made through the Tree of the current Cluster object
Used(op, val) ==
    [loopHandles EXCEPT ![Current].ops =
        Append(@, [op |-> op, round |-> i, val |-> val])]

Destroyed(hs) == [hs EXCEPT ![Len(hs)].state = "closed"]

InitLoop ==
    /\ loopPc = "openWrite"
    /\ i = 0
    /\ loopHandles = <<>>
    /\ stored = <<>>
    /\ loopContents = EmptyStr
    /\ loopOutcome = "running"

LoopOff ==
    /\ loopPc = "off"
    /\ i = 0
    /\ loopHandles = <<>>
    /\ stored = <<>>
    /\ loopContents = EmptyStr
    /\ loopOutcome = "off"

\* the catch clause of main; unwinding destroys the current Cluster object
LoopCatchException(hs) ==
    /\ loopOutcome' = "exit1"
    /\ loopPc' = "exited"
    /\ loopHandles' = Destroyed(hs)
    /\ UNCHANGED <<i, stored, loopContents>>

\* main, line 163
OpenWriteHandle ==
    /\ loopPc = "openWrite"
    /\ UNCHANGED notLoopVars
    /\ loopHandles' = Append(loopHandles,
                          [round |-> i, state |-> "open", ops |-> <<>>])
    /\ loopPc' = "mkdir"
    /\ UNCHANGED <<i, stored, loopContents, loopOutcome>>

\* main, lines 164-165
LoopMakeDirectory ==
    /\ loopPc = "mkdir"
    /\ UNCHANGED notLoopVars
    /\ \/ LoopCatchException(Used("makeDirectory", EmptyStr))
       \/ /\ loopHandles' = Used("makeDirectory", EmptyStr)
          /\ loopPc' = "write"
          /\ UNCHANGED <<i, stored, loopContents, loopOutcome>>

\* main, lines 166-167: the write, then the Cluster object goes out of scope
WriteValue ==
    /\ loopPc = "write"
    /\ UNCHANGED notLoopVars
    /\ \/ LoopCatchException(Used("write", to_string(i)))
       \/ /\ loopHandles' = Destroyed(Used("write", to_string(i)))
          /\ stored' = Append(stored, to_string(i))
          /\ loopPc' = "openRead"
          /\ UNCHANGED <<i, loopContents, loopOutcome>>

\* mutant of OpenReadHandle: the Cluster object of the write is used again
OpenReadHandle_Reuse ==
    /\ loopPc = "openRead"
    /\ UNCHANGED notLoopVars
    /\ loopHandles' = [loopHandles EXCEPT ![Current].state = "open"]
    /\ loopPc' = "read"
    /\ UNCHANGED <<i, stored, loopContents, loopOutcome>>

\* main, line 169
OpenReadHandle ==
    /\ loopPc = "openRead"
    /\ UNCHANGED notLoopVars
    /\ loopHandles' = Append(loopHandles,
                          [round |-> i, state |-> "open", ops |-> <<>>])
    /\ loopPc' = "read"
    /\ UNCHANGED <<i, stored, loopContents, loopOutcome>>

\* main, lines 170-171: the service answers with a value it has accepted
ReadValue ==
    /\ loopPc = "read"
    /\ UNCHANGED notLoopVars
    /\ \/ LoopCatchException(Used("read", EmptyStr))
       \/ \E k \in 1..Len(stored) :
             /\ loopContents' = stored[k]
             /\ loopHandles' = Used("read", stored[k])
             /\ loopPc' = "assert"
             /\ UNCHANGED <<i, stored, loopOutcome>>

\* mutant of AssertContents: the comparison is not made
AssertContents_Disabled ==
    /\ loopPc = "assert"
    /\ UNCHANGED notLoopVars
    /\ loopPc' = "sleep"
    /\ UNCHANGED <<i, loopHandles, stored, loopContents, loopOutcome>>

\* main, line 172: a failed assert calls abort()
AssertContents ==
    /\ loopPc = "assert"
    /\ UNCHANGED notLoopVars
    /\ IF loopContents = to_string(i)
       THEN /\ loopPc' = "sleep"
            /\ UNCHANGED loopOutcome
       ELSE /\ loopPc' = "exited"
            /\ loopOutcome' = "abort"
    /\ UNCHANGED <<i, loopHandles, stored, loopContents>>

\* mutant of SleepAndNext: the loop test lets one more round run
SleepAndNext_OneMore ==
    /\ loopPc = "sleep"
    /\ UNCHANGED notLoopVars
    /\ loopHandles' = Destroyed(loopHandles)
    /\ i' = i + 1
    /\ IF i' <= Rounds
       THEN /\ loopPc' = "openWrite"
            /\ UNCHANGED loopOutcome
       ELSE /\ loopPc' = "exited"
            /\ loopOutcome' = "exit0"
    /\ UNCHANGED <<stored, loopContents>>

\* main, lines 173-175 and 157: the sleep, the Cluster object goes out of
\* scope, ++i and the loop test; main returns when the loop ends
SleepAndNext ==
    /\ loopPc = "sleep"
    /\ UNCHANGED notLoopVars
    /\ loopHandles' = Destroyed(loopHandles)
    /\ i' = i + 1
    /\ IF i' < Rounds
       THEN /\ loopPc' = "openWrite"
            /\ UNCHANGED loopOutcome
       ELSE /\ loopPc' = "exited"
            /\ loopOutcome' = "exit0"
    /\ UNCHANGED <<stored, loopContents>>

NextLoop ==
    \/ OpenWriteHandle
    \/ LoopMakeDirectory
    \/ WriteValue
    \/ OpenReadHandle
    \/ ReadValue
    \/ AssertContents
    \/ SleepAndNext

-----------------------------------------------------------------------------
(* Benchmark: src/unnamed/part_001 *)

\* statuses of Tree::read: OK, the tolerated LOOKUP_ERROR, another error
ReadStatuses == {"OK", "LOOKUP_ERROR", "TIMEOUT"}

\* ways Tree::writeEx ends
WriteResults == {"ok", "exception"}

Ids == 0..(threads - 1)

NumOperations_Inclusive(id, total, nthreads) ==
    LET n == total \div nthreads
    IN  IF total - n * nthreads >= id THEN n + 1 ELSE n

\* operationThreadMain, lines 257-260
NumOperations(id, total, nthreads) ==
    LET n == total \div nthreads
    IN  IF total - n * nthreads > id THEN n + 1 ELSE n

\* the step of the clock: timeNanos shows a multiple of it
NanosPerTick == 500000000

\* timeNanos, lines 281-287, when the clock shows t steps; the clock is
\* taken not to be set back during a run, so that the unsigned differences
\* of two of its values do not wrap
timeNanos(t) == t * NanosPerTick

\* the 1e9 of line 358
NanosPerSec == 1000000000

\* names of the --opsPerSecFile option: none, or a file
FileNames == {"", "ops"}

RECURSIVE Gcd(_, _)
Gcd(a, b) == IF b = 0 THEN a ELSE Gcd(b, a % b)

\* a double that is no number, and the file before it is written
NotFinite(what) == [kind |-> what, num |-> 0, den |-> 0]

Unwritten == NotFinite("unwritten")

\* mutant of Rate: the divisor of the milliseconds of line 351
Rate_PerMilli(operations, nanos) ==
    IF nanos = 0
    THEN NotFinite(IF operations = 0 THEN "nan" ELSE "inf")
    ELSE LET g == Gcd(nanos, 1000000)
             n == nanos \div g
             h == Gcd(operations, n)
         IN  [kind |-> "finite",
              num |-> (operations \div h) * (1000000 \div g),
              den |-> n \div h]

\* main, lines 358-360: operations / (nanos / 1e9) as a fraction in lowest
\* terms; a division by 0.0 gives an infinity, or a NaN for 0.0 / 0.0
Rate(operations, nanos) ==
    IF nanos = 0
    THEN NotFinite(IF operations = 0 THEN "nan" ELSE "inf")
    ELSE LET g == Gcd(nanos, NanosPerSec)
             n == nanos \div g
             h == Gcd(operations, n)
         IN  [kind |-> "finite",
              num |-> (operations \div h) * (NanosPerSec \div g),
              den |-> n \div h]

\* a run with --opsPerSecFile given; the end of main without it is drawn in
\* InitRate
InitBench ==
    /\ threads \in 0..MaxThreads
    /\ opsPerSecFileName = "ops"
    /\ opsPerSecFile = Unwritten
    /\ totalOperations \in 0..MaxOperations
    /\ operationType \in {"READ", "WRITE"}
    /\ timeout \in {d * NanosPerTick : d \in 0..MaxTimeout}
    /\ exit = FALSE
    /\ operationsDonePerThread = [k \in Ids |-> 0]
    /\ totalOperationsDone = 0
    /\ startNanos = 0
    /\ endNanos = 0
    /\ mainPc = "start"
    /\ mainI = 0
    /\ workerPc = [k \in Ids |-> "unstarted"]
    /\ numOperations = [k \in Ids |-> 0]
    /\ workerI = [k \in Ids |-> 0]
    /\ timerPc = "unstarted"
    /\ timerStart = 0
    /\ now = 0
    /\ benchOutcome = "running"
    /\ completed = [k \in Ids |-> 0]
    /\ sawExit = [k \in Ids |-> FALSE]
    /\ exitSetBy = {}
    /\ keyRemoved = FALSE
    /\ lastResult = [k \in Ids |-> "none"]
    /\ lateOperations = [k \in Ids |-> 0]

\* every operationThreadMain at its first line, for any options with at
\* least one thread
InitSplit ==
    /\ threads \in 1..MaxSplitThreads
    /\ opsPerSecFileName = ""
    /\ opsPerSecFile = Unwritten
    /\ totalOperations \in 0..MaxSplitOperations
    /\ operationType \in {"READ", "WRITE"}
    /\ timeout = 0
    /\ exit = FALSE
    /\ operationsDonePerThread = [k \in Ids |-> 0]
    /\ totalOperationsDone = 0
    /\ startNanos = 0
    /\ endNanos = 0
    /\ mainPc = "join"
    /\ mainI = 0
    /\ workerPc = [k \in Ids |-> "init"]
    /\ numOperations = [k \in Ids |-> 0]
    /\ workerI = [k \in Ids |-> 0]
    /\ timerPc = "test"
    /\ timerStart = 0
    /\ now = 0
    /\ benchOutcome = "running"
    /\ completed = [k \in Ids |-> 0]
    /\ sawExit = [k \in Ids |-> FALSE]
    /\ exitSetBy = {}
    /\ keyRemoved = FALSE
    /\ lastResult = [k \in Ids |-> "none"]
    /\ lateOperations = [k \in Ids |-> 0]

\* totals and times the report is computed from when it is checked alone
RateOperations == {0, 1, 3, 1000, 100000}

RateStarts == {0, 100000000}

RateElapsed == {0, 500000000, 1000000000, 1500000000, 2000000000}

\* main before line 349 after a run of one thread, for any total and times
InitRate ==
    /\ threads = 1
    /\ opsPerSecFileName \in FileNames
    /\ opsPerSecFile = Unwritten
    /\ totalOperationsDone \in RateOperations
    /\ totalOperations = totalOperationsDone
    /\ operationType \in {"READ", "WRITE"}
    /\ timeout = 0
    /\ exit = TRUE
    /\ operationsDonePerThread = [k \in Ids |-> totalOperationsDone]
    /\ startNanos \in RateStarts
    /\ endNanos \in {startNanos + e : e \in RateElapsed}
    /\ mainPc = "remove"
    /\ mainI = 0
    /\ workerPc = [k \in Ids |-> "done"]
    /\ numOperations = [k \in Ids |-> totalOperationsDone]
    /\ workerI = [k \in Ids |-> totalOperationsDone]
    /\ timerPc = "done"
    /\ timerStart = startNanos
    /\ now = 0
    /\ benchOutcome = "running"
    /\ completed = [k \in Ids |-> totalOperationsDone]
    /\ sawExit = [k \in Ids |-> FALSE]
    /\ exitSetBy = {"main"}
    /\ keyRemoved = FALSE
    /\ lastResult = [k \in Ids |-> "none"]
    /\ lateOperations = [k \in Ids |-> 0]

BenchOff ==
    /\ threads = 0
    /\ totalOperations = 0
    /\ operationType = "READ"
    /\ timeout = 0
    /\ exit = FALSE
    /\ operationsDonePerThread = <<>>
    /\ totalOperationsDone = 0
    /\ startNanos = 0
    /\ endNanos = 0
    /\ mainPc = "off"
    /\ mainI = 0
    /\ workerPc = <<>>
    /\ numOperations = <<>>
    /\ workerI = <<>>
    /\ timerPc = "off"
    /\ timerStart = 0
    /\ now = 0
    /\ benchOutcome = "off"
    /\ completed = <<>>
    /\ sawExit = <<>>
    /\ exitSetBy = {}
    /\ keyRemoved = FALSE
    /\ lastResult = <<>>
    /\ lateOperations = <<>>
    /\ opsPerSecFileName = ""
    /\ opsPerSecFile = Unwritten

\* main, lines 318-331: the options, the Tree, the start time
MainStart ==
    /\ benchOutcome = "running"
    /\ mainPc = "start"
    /\ UNCHANGED notBenchVars
    /\ \E t \in now..MaxNow :
          /\ now' = t
          /\ startNanos' = timeNanos(t)
    /\ mainPc' = "timer"
    /\ UNCHANGED <<threads, totalOperations, operationType, timeout, exit,
                   operationsDonePerThread, totalOperationsDone, endNanos,
                   mainI, workerPc, numOperations, workerI, timerPc,
                   timerStart, benchOutcome, completed, sawExit, exitSetBy,
                   keyRemoved, lastResult,
                   opsPerSecFileName, opsPerSecFile, lateOperations>>

\* main, line 333, and the test of the loop at line 334
SpawnTimer ==
    /\ benchOutcome = "running"
    /\ mainPc = "timer"
    /\ UNCHANGED notBenchVars
    /\ timerPc' = "start"
    /\ mainPc' = IF threads > 0 THEN "spawn" ELSE "end"
    /\ UNCHANGED <<threads, totalOperations, operationType, timeout, exit,
                   operationsDonePerThread, totalOperationsDone, startNanos,
                   endNanos, mainI, workerPc, numOperations, workerI,
                   timerStart, now, benchOutcome, completed, sawExit,
                   exitSetBy, keyRemoved, lastResult,
                   opsPerSecFileName, opsPerSecFile, lateOperations>>

\* mutant of SpawnWorker: main does not join the threads it started
SpawnWorker_NoJoin ==
    /\ benchOutcome = "running"
    /\ mainPc = "spawn"
    /\ UNCHANGED notBenchVars
    /\ workerPc' = [workerPc EXCEPT ![mainI] = "init"]
    /\ IF mainI + 1 < threads
       THEN /\ mainI' = mainI + 1
            /\ UNCHANGED mainPc
       ELSE /\ mainI' = 0
            /\ mainPc' = "end"
    /\ UNCHANGED <<threads, totalOperations, operationType, timeout, exit,
                   operationsDonePerThread, totalOperationsDone, startNanos,
                   endNanos, numOperations, workerI, timerPc, timerStart,
                   now, benchOutcome, completed, sawExit, exitSetBy,
                   keyRemoved, lastResult,
                   opsPerSecFileName, opsPerSecFile, lateOperations>>

\* main, lines 334-340: one round of the loop that starts the threads
SpawnWorker ==
    /\ benchOutcome = "running"
    /\ mainPc = "spawn"
    /\ UNCHANGED notBenchVars
    /\ workerPc' = [workerPc EXCEPT ![mainI] = "init"]
    /\ IF mainI + 1 < threads
       THEN /\ mainI' = mainI + 1
            /\ UNCHANGED mainPc
       ELSE /\ mainI' = 0
            /\ mainPc' = "join"
    /\ UNCHANGED <<threads, totalOperations, operationType, timeout, exit,
                   operationsDonePerThread, totalOperationsDone, startNanos,
                   endNanos, numOperations, workerI, timerPc, timerStart,
                   now, benchOutcome, completed, sawExit, exitSetBy,
                   keyRemoved, lastResult,
                   opsPerSecFileName, opsPerSecFile, lateOperations>>

\* mutant of JoinWorker: the count of the thread replaces the total
JoinWorker_Overwrite ==
    /\ benchOutcome = "running"
    /\ mainPc = "join"
    /\ UNCHANGED notBenchVars
    /\ workerPc[mainI] = "done"
    /\ totalOperationsDone' = operationsDonePerThread[mainI]
    /\ IF mainI + 1 < threads
       THEN /\ mainI' = mainI + 1
            /\ UNCHANGED mainPc
       ELSE /\ mainI' = 0
            /\ mainPc' = "end"
    /\ UNCHANGED <<threads, totalOperations, operationType, timeout, exit,
                   operationsDonePerThread, startNanos, endNanos, workerPc,
                   numOperations, workerI, timerPc, timerStart, now,
                   benchOutcome, completed, sawExit, exitSetBy, keyRemoved,
                   lastResult,
                   opsPerSecFileName, opsPerSecFile, lateOperations>>

\* mutant of JoinWorker: the count is read without the join
JoinWorker_NoJoin ==
    /\ benchOutcome = "running"
    /\ mainPc = "join"
    /\ UNCHANGED notBenchVars
    /\ totalOperationsDone' =
           totalOperationsDone + operationsDonePerThread[mainI]
    /\ IF mainI + 1 < threads
       THEN /\ mainI' = mainI + 1
            /\ UNCHANGED mainPc
       ELSE /\ mainI' = 0
            /\ mainPc' = "end"
    /\ UNCHANGED <<threads, totalOperations, operationType, timeout, exit,
                   operationsDonePerThread, startNanos, endNanos, workerPc,
                   numOperations, workerI, timerPc, timerStart, now,
                   benchOutcome, completed, sawExit, exitSetBy, keyRemoved,
                   lastResult,
                   opsPerSecFileName, opsPerSecFile, lateOperations>>

\* main, lines 341-344: one round of the loop that joins the threads
JoinWorker ==
    /\ benchOutcome = "running"
    /\ mainPc = "join"
    /\ UNCHANGED notBenchVars
    /\ workerPc[mainI] = "done"
    /\ totalOperationsDone' =
           totalOperationsDone + operationsDonePerThread[mainI]
    /\ IF mainI + 1 < threads
       THEN /\ mainI' = mainI + 1
            /\ UNCHANGED mainPc
       ELSE /\ mainI' = 0
            /\ mainPc' = "end"
    /\ UNCHANGED <<threads, totalOperations, operationType, timeout, exit,
                   operationsDonePerThread, startNanos, endNanos, workerPc,
                   numOperations, workerI, timerPc, timerStart, now,
                   benchOutcome, completed, sawExit, exitSetBy, keyRemoved,
                   lastResult,
                   opsPerSecFileName, opsPerSecFile, lateOperations>>

\* main, line 345
SampleEnd ==
    /\ benchOutcome = "running"
    /\ mainPc = "end"
    /\ UNCHANGED notBenchVars
    /\ \E t \in now..MaxNow :
          /\ now' = t
          /\ endNanos' = timeNanos(t)
    /\ mainPc' = "setExit"
    /\ UNCHANGED <<threads, totalOperations, operationType, timeout, exit,
                   operationsDonePerThread, totalOperationsDone, startNanos,
                   mainI, workerPc, numOperations, workerI, timerPc,
                   timerStart, benchOutcome, completed, sawExit, exitSetBy,
                   keyRemoved, lastResult,
                   opsPerSecFileName, opsPerSecFile, lateOperations>>

\* mutant of SetExit: main goes on to join the timer with exit as it is
SetExit_Skipped ==
    /\ benchOutcome = "running"
    /\ mainPc = "setExit"
    /\ UNCHANGED notBenchVars
    /\ mainPc' = "joinTimer"
    /\ UNCHANGED <<threads, totalOperations, operationType, timeout, exit,
                   operationsDonePerThread, totalOperationsDone, startNanos,
                   endNanos, mainI, workerPc, numOperations, workerI,
                   timerPc, timerStart, now, benchOutcome, completed,
                   sawExit, exitSetBy, keyRemoved, lastResult,
                   opsPerSecFileName, opsPerSecFile, lateOperations>>

\* main, line 346
SetExit ==
    /\ benchOutcome = "running"
    /\ mainPc = "setExit"
    /\ UNCHANGED notBenchVars
    /\ exit' = TRUE
    /\ exitSetBy' = exitSetBy \cup {"main"}
    /\ mainPc' = "joinTimer"
    /\ UNCHANGED <<threads, totalOperations, operationType, timeout,
                   operationsDonePerThread, totalOperationsDone, startNanos,
                   endNanos, mainI, workerPc, numOperations, workerI,
                   timerPc, timerStart, now, benchOutcome, completed,
                   sawExit, keyRemoved, lastResult,
                   opsPerSecFileName, opsPerSecFile, lateOperations>>

\* main, line 347
JoinTimer ==
    /\ benchOutcome = "running"
    /\ mainPc = "joinTimer"
    /\ UNCHANGED notBenchVars
    /\ timerPc = "done"
    /\ mainPc' = "remove"
    /\ UNCHANGED <<threads, totalOperations, operationType, timeout, exit,
                   operationsDonePerThread, totalOperationsDone, startNanos,
                   endNanos, mainI, workerPc, numOperations, workerI,
                   timerPc, timerStart, now, benchOutcome, completed,
                   sawExit, exitSetBy, keyRemoved, lastResult,
                   opsPerSecFileName, opsPerSecFile, lateOperations>>

\* main, line 349: the Result of removeFile is not looked at
RemoveFile ==
    /\ benchOutcome = "running"
    /\ mainPc = "remove"
    /\ UNCHANGED notBenchVars
    /\ keyRemoved' = TRUE
    /\ mainPc' = "report"
    /\ UNCHANGED <<threads, totalOperations, operationType, timeout, exit,
                   operationsDonePerThread, totalOperationsDone, startNanos,
                   endNanos, mainI, workerPc, numOperations, workerI,
                   timerPc, timerStart, now, benchOutcome, completed,
                   sawExit, exitSetBy, lastResult,
                   opsPerSecFileName, opsPerSecFile, lateOperations>>

\* main, lines 350-363: the report, the file when it has a name, return 0
Report ==
    /\ benchOutcome = "running"
    /\ mainPc = "report"
    /\ UNCHANGED notBenchVars
    /\ IF opsPerSecFileName # ""
       THEN opsPerSecFile' = Rate(totalOperationsDone, endNanos - startNanos)
       ELSE UNCHANGED opsPerSecFile
    /\ mainPc' = "done"
    /\ benchOutcome' = "exit0"
    /\ UNCHANGED <<threads, totalOperations, operationType, timeout, exit,
                   operationsDonePerThread, totalOperationsDone, startNanos,
                   endNanos, mainI, workerPc, numOperations, workerI,
                   timerPc, timerStart, now, completed, sawExit, exitSetBy,
                   keyRemoved, lastResult, opsPerSecFileName, lateOperations>>

\* operationThreadMain, lines 257-261: the quota of the thread
WorkerInit(k) ==
    /\ benchOutcome = "running"
    /\ workerPc[k] = "init"
    /\ UNCHANGED notBenchVars
    /\ numOperations' = [numOperations EXCEPT
                            ![k] = NumOperations(k, totalOperations, threads)]
    /\ workerI' = [workerI EXCEPT ![k] = 0]
    /\ workerPc' = [workerPc EXCEPT ![k] = "test"]
    /\ UNCHANGED <<threads, totalOperations, operationType, timeout, exit,
                   operationsDonePerThread, totalOperationsDone, startNanos,
                   endNanos, mainPc, mainI, timerPc, timerStart, now,
                   benchOutcome, completed, sawExit, exitSetBy, keyRemoved,
                   lastResult,
                   opsPerSecFileName, opsPerSecFile, lateOperations>>

\* mutant of WorkerTest: the thread loads exit and goes on whatever it is
WorkerTest_NoBreak(k) ==
    /\ benchOutcome = "running"
    /\ workerPc[k] = "test"
    /\ UNCHANGED notBenchVars
    /\ IF workerI[k] < numOperations[k]
       THEN /\ sawExit' = [sawExit EXCEPT ![k] = exit]
            /\ workerPc' = [workerPc EXCEPT ![k] = "operation"]
       ELSE /\ workerPc' = [workerPc EXCEPT ![k] = "done"]
            /\ UNCHANGED sawExit
    /\ UNCHANGED <<threads, totalOperations, operationType, timeout, exit,
                   operationsDonePerThread, totalOperationsDone, startNanos,
                   endNanos, mainPc, mainI, numOperations, workerI, timerPc,
                   timerStart, now, benchOutcome, completed, exitSetBy,
                   keyRemoved, lastResult,
                   opsPerSecFileName, opsPerSecFile, lateOperations>>

\* mutant of WorkerTest: exit is only looked at before the first operation
WorkerTest_FirstOnly(k) ==
    /\ benchOutcome = "running"
    /\ workerPc[k] = "test"
    /\ UNCHANGED notBenchVars
    /\ IF workerI[k] < numOperations[k]
       THEN /\ sawExit' = [sawExit EXCEPT ![k] = exit /\ workerI[k] = 0]
            /\ workerPc' = [workerPc EXCEPT
                               ![k] = IF exit /\ workerI[k] = 0
                                      THEN "done" ELSE "operation"]
       ELSE /\ workerPc' = [workerPc EXCEPT ![k] = "done"]
            /\ UNCHANGED sawExit
    /\ UNCHANGED <<threads, totalOperations, operationType, timeout, exit,
                   operationsDonePerThread, totalOperationsDone, startNanos,
                   endNanos, mainPc, mainI, numOperations, workerI, timerPc,
                   timerStart, now, benchOutcome, completed, exitSetBy,
                   keyRemoved, lastResult,
                   opsPerSecFileName, opsPerSecFile, lateOperations>>

\* operationThreadMain, lines 261-263: the loop test, then the load of exit
WorkerTest(k) ==
    /\ benchOutcome = "running"
    /\ workerPc[k] = "test"
    /\ UNCHANGED notBenchVars
    /\ IF workerI[k] < numOperations[k]
       THEN /\ sawExit' = [sawExit EXCEPT ![k] = exit]
            /\ workerPc' = [workerPc EXCEPT
                               ![k] = IF exit THEN "done" ELSE "operation"]
       ELSE /\ workerPc' = [workerPc EXCEPT ![k] = "done"]
            /\ UNCHANGED sawExit
    /\ UNCHANGED <<threads, totalOperations, operationType, timeout, exit,
                   operationsDonePerThread, totalOperationsDone, startNanos,
                   endNanos, mainPc, mainI, numOperations, workerI, timerPc,
                   timerStart, now, benchOutcome, completed, exitSetBy,
                   keyRemoved, lastResult,
                   opsPerSecFileName, opsPerSecFile, lateOperations>>

\* operationThreadMain, line 274 and the ++i of line 261
Counted(k, res) ==
    /\ lastResult' = [lastResult EXCEPT ![k] = res]
    /\ lateOperations' = [lateOperations EXCEPT
                             ![k] = IF exit THEN @ + 1 ELSE @]
    /\ operationsDonePerThread' =
           [operationsDonePerThread EXCEPT ![k] = workerI[k] + 1]
    /\ workerI' = [workerI EXCEPT ![k] = workerI[k] + 1]
    /\ completed' = [completed EXCEPT ![k] = completed[k] + 1]
    /\ workerPc' = [workerPc EXCEPT ![k] = "test"]
    /\ UNCHANGED benchOutcome

\* the process ends while thread k is in an operation
Ended(k, res, how) ==
    /\ lastResult' = [lastResult EXCEPT ![k] = res]
    /\ lateOperations' = [lateOperations EXCEPT
                             ![k] = IF exit THEN @ + 1 ELSE @]
    /\ benchOutcome' = how
    /\ UNCHANGED <<operationsDonePerThread, workerI, completed, workerPc>>

\* mutant of WorkerOperation: a read that fails with LOOKUP_ERROR ends the
\* process like any other failed read
WorkerOperation_NotFoundFatal(k) ==
    /\ benchOutcome = "running"
    /\ workerPc[k] = "operation"
    /\ UNCHANGED notBenchVars
    /\ IF operationType = "READ"
       THEN \E status \in ReadStatuses :
               IF status # "OK"
               THEN Ended(k, status, "exit1")
               ELSE Counted(k, status)
       ELSE \E res \in WriteResults :
               IF res = "exception"
               THEN Ended(k, res, "terminate")
               ELSE Counted(k, res)
    /\ UNCHANGED <<threads, totalOperations, operationType, timeout, exit,
                   totalOperationsDone, startNanos, endNanos, mainPc, mainI,
                   numOperations, timerPc, timerStart, now, sawExit,
                   exitSetBy, keyRemoved,
                   opsPerSecFileName, opsPerSecFile>>

\* operationThreadMain, lines 264-274: one operation.  ::exit(1) ends the
\* process; an exception that leaves the thread function calls
\* std::terminate, which aborts the process
WorkerOperation(k) ==
    /\ benchOutcome = "running"
    /\ workerPc[k] = "operation"
    /\ UNCHANGED notBenchVars
    /\ IF operationType = "READ"
       THEN \E status \in ReadStatuses :
               IF status # "OK" /\ status # "LOOKUP_ERROR"
               THEN Ended(k, status, "exit1")
               ELSE Counted(k, status)
       ELSE \E res \in WriteResults :
               IF res = "exception"
               THEN Ended(k, res, "terminate")
               ELSE Counted(k, res)
    /\ UNCHANGED <<threads, totalOperations, operationType, timeout, exit,
                   totalOperationsDone, startNanos, endNanos, mainPc, mainI,
                   numOperations, timerPc, timerStart, now, sawExit,
                   exitSetBy, keyRemoved,
                   opsPerSecFileName, opsPerSecFile>>

\* timerThreadMain, line 302
TimerStart ==
    /\ benchOutcome = "running"
    /\ timerPc = "start"
    /\ UNCHANGED notBenchVars
    /\ \E t \in now..MaxNow :
          /\ now' = t
          /\ timerStart' = timeNanos(t)
    /\ timerPc' = "test"
    /\ UNCHANGED <<threads, totalOperations, operationType, timeout, exit,
                   operationsDonePerThread, totalOperationsDone, startNanos,
                   endNanos, mainPc, mainI, workerPc, numOperations, workerI,
                   benchOutcome, completed, sawExit, exitSetBy, keyRemoved,
                   lastResult,
                   opsPerSecFileName, opsPerSecFile, lateOperations>>

\* timerThreadMain, line 303
TimerTest ==
    /\ benchOutcome = "running"
    /\ timerPc = "test"
    /\ UNCHANGED notBenchVars
    /\ timerPc' = IF exit THEN "done" ELSE "sleep"
    /\ UNCHANGED <<threads, totalOperations, operationType, timeout, exit,
                   operationsDonePerThread, totalOperationsDone, startNanos,
                   endNanos, mainPc, mainI, workerPc, numOperations, workerI,
                   timerStart, now, benchOutcome, completed, sawExit,
                   exitSetBy, keyRemoved, lastResult,
                   opsPerSecFileName, opsPerSecFile, lateOperations>>

\* mutant of TimerSleep: exit is set as soon as the timeout is reached
TimerSleep_NotStrict ==
    /\ benchOutcome = "running"
    /\ timerPc = "sleep"
    /\ UNCHANGED notBenchVars
    /\ \E t \in now..MaxNow :
          /\ now' = t
          /\ IF (timeNanos(t) - timerStart) >= timeout
             THEN /\ exit' = TRUE
                  /\ exitSetBy' = exitSetBy \cup {"timer"}
             ELSE UNCHANGED <<exit, exitSetBy>>
    /\ timerPc' = "test"
    /\ UNCHANGED <<threads, totalOperations, operationType, timeout,
                   operationsDonePerThread, totalOperationsDone, startNanos,
                   endNanos, mainPc, mainI, workerPc, numOperations, workerI,
                   timerStart, benchOutcome, completed, sawExit, keyRemoved,
                   lastResult,
                   opsPerSecFileName, opsPerSecFile, lateOperations>>

\* timerThreadMain, lines 304-307
TimerSleep ==
    /\ benchOutcome = "running"
    /\ timerPc = "sleep"
    /\ UNCHANGED notBenchVars
    /\ \E t \in now..MaxNow :
          /\ now' = t
          /\ IF (timeNanos(t) - timerStart) > timeout
             THEN /\ exit' = TRUE
                  /\ exitSetBy' = exitSetBy \cup {"timer"}
             ELSE UNCHANGED <<exit, exitSetBy>>
    /\ timerPc' = "test"
    /\ UNCHANGED <<threads, totalOperations, operationType, timeout,
                   operationsDonePerThread, totalOperationsDone, startNanos,
                   endNanos, mainPc, mainI, workerPc, numOperations, workerI,
                   timerStart, benchOutcome, completed, sawExit, keyRemoved,
                   lastResult,
                   opsPerSecFileName, opsPerSecFile, lateOperations>>

MainNext ==
    \/ MainStart
    \/ SpawnTimer
    \/ SpawnWorker
    \/ JoinWorker
    \/ SampleEnd
    \/ SetExit
    \/ JoinTimer
    \/ RemoveFile
    \/ Report

WorkerNext(k) ==
    \/ WorkerInit(k)
    \/ WorkerTest(k)
    \/ WorkerOperation(k)

TimerNext ==
    \/ TimerStart
    \/ TimerTest
    \/ TimerSleep

NextBench ==
    \/ MainStart
    \/ SpawnTimer
    \/ SpawnWorker
    \/ JoinWorker
    \/ SampleEnd
    \/ SetExit
    \/ JoinTimer
    \/ RemoveFile
    \/ Report
    \/ \E k \in Ids : WorkerInit(k)
    \/ \E k \in Ids : WorkerTest(k)
    \/ \E k \in Ids : WorkerOperation(k)
    \/ TimerStart
    \/ TimerTest
    \/ TimerSleep

-----------------------------------------------------------------------------
(* The host:port list functions alone: src/unnamed/part_000, lines 136-176 *)
(* and the erase/remove_if of main, lines 263-266                          *)

Alphabet == {"h", "1", ":", ","}

\* every string of at most MaxLen characters of the alphabet
Strings == UNION {[1..n -> Alphabet] : n \in 0..MaxLen}

\* items lists are built from: pairs, a pair with an empty host, a port
\* with a colon in it, an item without a colon
ListItems == {<<"h", ":", "1">>, <<"h", ":", "2">>, <<":", "1">>,
              <<"h", ":", "1", ":", "2">>, <<"h">>}

ListInputs ==
    Strings
    \cup {JoinItems(l) : l \in UNION {[1..n -> ListItems] : n \in 0..MaxItems}}

NoParse == [ok |-> FALSE, list |-> <<>>, bad |-> EmptyStr]

InitList ==
    /\ listInput \in ListInputs
    /\ listPc = "start"
    /\ listHosts = <<>>
    /\ listBad = EmptyStr
    /\ listJoined = EmptyStr
    /\ listReparsed = NoParse
    /\ listExcluded = EmptyStr
    /\ listRemaining = <<>>

ListOff ==
    /\ listInput = EmptyStr
    /\ listPc = "off"
    /\ listHosts = <<>>
    /\ listBad = EmptyStr
    /\ listJoined = EmptyStr
    /\ listReparsed = NoParse
    /\ listExcluded = EmptyStr
    /\ listRemaining = <<>>

\* parseHostPortList, lines 136-161: the list, or the PANIC at line 157
Parse ==
    /\ listPc = "start"
    /\ UNCHANGED notListVars
    /\ LET r == parseHostPortList(listInput)
       IN  IF r.ok
           THEN /\ listHosts' = r.list
                /\ listPc' = "parsed"
                /\ UNCHANGED listBad
           ELSE /\ listBad' = r.bad
                /\ listPc' = "panic"
                /\ UNCHANGED listHosts
    /\ UNCHANGED <<listInput, listJoined, listReparsed, listExcluded,
                   listRemaining>>

\* joinHostPortList, lines 163-176
Serialize ==
    /\ listPc = "parsed"
    /\ UNCHANGED notListVars
    /\ listJoined' = joinHostPortList(listHosts)
    /\ listPc' = "joined"
    /\ UNCHANGED <<listInput, listHosts, listBad, listReparsed, listExcluded,
                   listRemaining>>

\* parseHostPortList, lines 136-161, given what joinHostPortList returned
Reparse ==
    /\ listPc = "joined"
    /\ UNCHANGED notListVars
    /\ listReparsed' = parseHostPortList(listJoined)
    /\ listPc' = "reparsed"
    /\ UNCHANGED <<listInput, listHosts, listBad, listJoined, listExcluded,
                   listRemaining>>

\* main, lines 263-266: the erase/remove_if, for a port of the list, the
\* empty port leaderPort returns when it finds no leader, or another port
Without ==
    /\ listPc = "parsed"
    /\ UNCHANGED notListVars
    /\ \E p \in {listHosts[j].port : j \in 1..Len(listHosts)}
                \cup {EmptyStr, <<"1">>} :
          /\ listExcluded' = p
          /\ listRemaining' = RemovePort(listHosts, p)
    /\ listPc' = "removed"
    /\ UNCHANGED <<listInput, listHosts, listBad, listJoined, listReparsed>>

NextList ==
    \/ Parse
    \/ Serialize
    \/ Reparse
    \/ Without

-----------------------------------------------------------------------------
(* Specifications *)

FailoverInit == InitFailover /\ LoopOff /\ BenchOff /\ ListOff

LoopInit == InitLoop /\ FailoverOff /\ BenchOff /\ ListOff

BenchInit == InitBench /\ FailoverOff /\ LoopOff /\ ListOff

SplitInit == InitSplit /\ FailoverOff /\ LoopOff /\ ListOff

ListInit == InitList /\ FailoverOff /\ LoopOff /\ BenchOff

RateInit == InitRate /\ FailoverOff /\ LoopOff /\ ListOff

SpecFailover == FailoverInit /\ [][NextFailover]_vars

\* main is a sequential program that runs as long as it has a step to take
SpecFailoverFair == SpecFailover /\ WF_vars(NextFailover)

SpecLoop == LoopInit /\ [][NextLoop]_vars

SpecBench == BenchInit /\ [][NextBench]_vars

\* the quotas alone: each thread computes its numOperations
NextSplit == \E k \in Ids : WorkerInit(k)

SpecSplit == SplitInit /\ [][NextSplit]_vars

SpecList == ListInit /\ [][NextList]_vars

\* the end of main alone: the removal of the key and the report
NextRate ==
    \/ RemoveFile
    \/ Report

SpecRate == RateInit /\ [][NextRate]_vars

\* every thread that can take a step eventually takes one
SpecBenchFair ==
    /\ SpecBench
    /\ WF_vars(MainNext)
    /\ WF_vars(TimerNext)
    /\ \A k \in 0..(MaxThreads - 1) : WF_vars(k \in Ids /\ WorkerNext(k))

-----------------------------------------------------------------------------
(* Failover test: properties *)

\* the positions in trace of the calls op through cluster<h> with argument
\* in args and result in results
Calls(op, h, args, results) ==
    {k \in 1..Len(trace) :
        /\ trace[k].op = op
        /\ trace[k].h = h
        /\ trace[k].arg \in args
        /\ trace[k].res \in results}

AnyResult == {"ok", "exception", "acknowledged", "timeout", "violation"}

PartitionCalls(results) ==
    {k \in 1..Len(trace) :
        trace[k].op = "partition" /\ trace[k].res \in results}

HandleEvents(op, h) ==
    {k \in 1..Len(trace) : trace[k].op = op /\ trace[k].h = h}

\* every call of B comes after some call of A
Before(A, B) == \A b \in B : \E a \in A : a < b

\* the step VerifyRead: the read through cluster3 is next or was made
AtVerifyRead == pc \in {"read", "compare"} \/ HandleEvents("read", 3) # {}

\* the direct query of cluster3 was answered and main has compared the
\* result with oldLeaderPort
Compared == verifyReply \in StatsReplies /\ pc \notin {"verify", "check3"}

C3_NoLeaderIsFatal ==
    discovered = "none"
    => /\ Calls("write", 1, {"foo"}, AnyResult) = {}
       /\ PartitionCalls(AnyResult) = {}
       /\ Calls("write", 2, {"bar"}, AnyResult) = {}

\* C4: the write of "foo" has returned before the partition injection is
\* invoked, the injection has returned before the write of "bar" is issued,
\* and the write of "bar" has returned and cluster2 is destroyed before
\* cluster3 is constructed and the read is issued.
C4_StrictlySequential ==
    /\ Before(Calls("write", 1, {"foo"}, {"ok"}), PartitionCalls(AnyResult))
    /\ Before(PartitionCalls({"acknowledged"}),
              Calls("write", 2, {"bar"}, AnyResult))
    /\ Before(Calls("write", 2, {"bar"}, {"ok"}), HandleEvents("close", 2))
    /\ Before(HandleEvents("close", 2), HandleEvents("open", 3))
    /\ Before(HandleEvents("open", 3), HandleEvents("read", 3))
    /\ \A h \in 1..3 :
          handle[h].state = "open" => \A g \in 1..3 \ {h} :
                                          handle[g].state # "open"

C4_Witness ==
    /\ Calls("read", 3, ReadValues, {"ok"}) # {}
    /\ Calls("write", 2, {"bar"}, {"ok"}) # {}
    /\ PartitionCalls({"acknowledged"}) # {}

C6_AwaitNewLeaderEnds ==
    (pc = "await" /\ discovered = "leader" /\ hosts # <<>>) ~> (pc = "exited")

HostPortStr(e) == e.host \o <<":">> \o e.port

NotTheLeader(e) == HostPortStr(e) # leaderHostPort

\* main has built the hosts it waits for a new leader among
RemainingBuilt ==
    pc \in {"cluster2", "await", "sleep", "writeBar", "cluster3", "verify",
            "check3", "read", "compare"}
    \/ handle[2].state # "unopened"

\* C26: when a leader was found in Discover, the hosts that are asked for a
\* new leader and written "bar" through are the hosts of --cluster without
\* the one that answered LEADER: every other host:port is still among them,
\* also one with the port of the leader on another host.
C26_RemainingIsAllButLeader ==
    (RemainingBuilt /\ discovered = "leader") =>
        /\ hosts = SelectSeq(parseHostPortList(cluster).list, NotTheLeader)
        /\ cluster2str = joinHostPortList(hosts)
        /\ handle[2].state # "unopened" => handle[2].addr = cluster2str

\* C27: when a leader was found in Discover, the address given to
\* debugMakePartition and the address cluster3 is opened with and queried
\* at are the host:port that answered LEADER, host and port alike, whatever
\* the host is.
C27_SameEndpointThroughout ==
    discovered = "leader" =>
        /\ \A k \in 1..Len(trace) :
              trace[k].op = "partition" => trace[k].arg = leaderHostPort
        /\ handle[3].state # "unopened" => handle[3].addr = leaderHostPort
        /\ (pc = "verify" /\ lpIdx \in 1..Len(lpHosts)) =>
              HostPortStr(lpHosts[lpIdx]) = leaderHostPort

-----------------------------------------------------------------------------
(* Consistency loop: properties *)

\* the calls of kind in ops made through the k-th Cluster object
OpsOf(k, ops) ==
    {j \in 1..Len(loopHandles[k].ops) : loopHandles[k].ops[j].op \in ops}

\* C9: in every round the write and the read go through two distinct Cluster
\* objects, each constructed in that round; the object of the write is
\* destroyed before the object of the read is constructed; no object is used
\* in more than one round, nor for both a write and a read.
C9_FreshHandleEachSide ==
    \A k \in 1..Len(loopHandles) :
        /\ \A j \in 1..Len(loopHandles[k].ops) :
              loopHandles[k].ops[j].round = loopHandles[k].round
        /\ OpsOf(k, {"makeDirectory", "write"}) = {} \/ OpsOf(k, {"read"}) = {}
        /\ Cardinality(OpsOf(k, {"write"})) <= 1
        /\ Cardinality(OpsOf(k, {"read"})) <= 1
        /\ k < Len(loopHandles) => loopHandles[k].state = "closed"
        /\ OpsOf(k, {"read"}) # {}
           => /\ k > 1
              /\ loopHandles[k - 1].round = loopHandles[k].round
              /\ OpsOf(k - 1, {"write"}) # {}
              /\ loopHandles[k - 1].state = "closed"

C9_Witness ==
    /\ Len(loopHandles) >= 4
    /\ OpsOf(3, {"write"}) # {}
    /\ OpsOf(4, {"read"}) # {}
    /\ i = 1

\* C10: a read whose value differs from the value written in the same round
\* ends the run at once, in that round, by abort: no later round is run, and
\* the outcome is not the exit status 1 of a client exception.
C10_MismatchAborts ==
    /\ \A k \in 1..Len(loopHandles) :
          \A j \in OpsOf(k, {"read"}) :
              LET op == loopHandles[k].ops[j]
              IN  (op.val # EmptyStr /\ op.val # to_string(op.round))
                  => /\ k = Len(loopHandles)
                     /\ op.round = i
                     /\ IF loopPc = "assert" THEN loopOutcome = "running"
                        ELSE loopPc = "exited" /\ loopOutcome = "abort"
    /\ loopOutcome = "abort" => loopContents # to_string(i)

C10_Witness ==
    /\ loopOutcome = "abort"
    /\ i >= 1
    /\ OpsOf(Len(loopHandles), {"read"}) # {}

\* the number a string of decimal digits denotes
RECURSIVE NatOf(_)
NatOf(str) ==
    IF str = EmptyStr THEN 0
    ELSE NatOf(SubSeq(str, 1, Len(str) - 1)) * 10
         + (CHOOSE d \in 0..9 : Digits[d + 1] = str[Len(str)])

\* the calls op of round r, as pairs <<Cluster object, position>>
RoundOps(r, op) ==
    {<<k, j>> \in (1..Len(loopHandles)) \X (1..3) :
        /\ j <= Len(loopHandles[k].ops)
        /\ loopHandles[k].ops[j].op = op
        /\ loopHandles[k].ops[j].round = r}

\* C11: a run without errors makes exactly the rounds 0..9; in round r it
\* writes the decimal string of r, then makes exactly one read, compared
\* with the decimal string of r, with no write of the program between the
\* two; the values written increase strictly from round to round.
C11_TenRoundsWriteThenRead ==
    /\ i <= 10
    /\ \A r \in 0..10 :
          /\ Cardinality(RoundOps(r, "write")) <= 1
          /\ Cardinality(RoundOps(r, "read")) <= 1
          /\ \A w \in RoundOps(r, "write") :
                /\ loopHandles[w[1]].ops[w[2]].val # EmptyStr
                /\ NatOf(loopHandles[w[1]].ops[w[2]].val) = r
                /\ Len(loopHandles[w[1]].ops[w[2]].val) = 1
          /\ \A rd \in RoundOps(r, "read") :
                /\ RoundOps(r, "write") # {}
                /\ \A w \in RoundOps(r, "write") : rd[1] = w[1] + 1
                /\ RoundOps(r + 1, "write") = {}
                   \/ loopHandles[rd[1]].ops[rd[2]].val = <<Digits[r + 1]>>
    /\ \A j, k \in 1..Len(stored) : j < k => NatOf(stored[j]) < NatOf(stored[k])
    /\ loopOutcome = "exit0"
       => /\ i = 10
          /\ Len(stored) = 10
          /\ \A r \in 0..9 :
                /\ stored[r + 1] = <<Digits[r + 1]>>
                /\ Cardinality(RoundOps(r, "write")) = 1
                /\ Cardinality(RoundOps(r, "read")) = 1
                /\ \A rd \in RoundOps(r, "read") :
                      loopHandles[rd[1]].ops[rd[2]].val = <<Digits[r + 1]>>

C11_Witness ==
    /\ loopOutcome = "exit0"
    /\ Len(loopHandles) = 20
    /\ RoundOps(9, "read") # {}

-----------------------------------------------------------------------------
(* Benchmark: properties *)

RECURSIVE SumTo(_, _)
\* f[0] + ... + f[n - 1]
SumTo(f, n) == IF n = 0 THEN 0 ELSE SumTo(f, n - 1) + f[n - 1]

AllComputed == \A k \in Ids : workerPc[k] # "unstarted" /\ workerPc[k] # "init"

\* C12: for M operations and T >= 1 threads, the quotas sum to M, any two
\* differ by at most one, and thread k gets floor(M/T) + 1 when k < M mod T
\* and floor(M/T) otherwise.
C12_BalancedSplit ==
    /\ \A k \in Ids :
          (workerPc[k] # "unstarted" /\ workerPc[k] # "init") =>
              numOperations[k] =
                  (totalOperations \div threads)
                  + (IF k < totalOperations % threads THEN 1 ELSE 0)
    /\ AllComputed =>
          /\ SumTo(numOperations, threads) = totalOperations
          /\ \A j, k \in Ids :
                /\ numOperations[j] - numOperations[k] <= 1
                /\ numOperations[k] - numOperations[j] <= 1

C12_Witness ==
    /\ AllComputed
    /\ threads = 3
    /\ totalOperations = 8
    /\ numOperations[1] = 3
    /\ numOperations[2] = 2

\* main is past the loop that joins the threads
Joined == mainPc \in {"end", "setExit", "joinTimer", "remove", "report", "done"}

C14_EarlyTermination ==
    (Joined /\ \E k \in Ids : sawExit[k]) =>
        totalOperationsDone < totalOperations

C14_Witness ==
    /\ benchOutcome = "exit0"
    /\ \E k \in Ids : sawExit[k] /\ completed[k] >= 1
    /\ "timer" \in exitSetBy

\* thread k is in an operation that returns in this step
Returns(k) ==
    /\ workerPc[k] = "operation"
    /\ \/ completed'[k] # completed[k]
       \/ lastResult'[k] # lastResult[k]

\* C15: a read that returns LOOKUP_ERROR is counted and the thread goes on;
\* a read that returns another status than OK ends the process at once with
\* status 1: nothing happens after it, the key is not removed and nothing
\* is reported.
C15_ReadHandling ==
    /\ [][\A k \in Ids :
            (operationType = "READ" /\ Returns(k)) =>
                IF lastResult'[k] \in {"OK", "LOOKUP_ERROR"}
                THEN /\ benchOutcome' = "running"
                     /\ operationsDonePerThread'[k] =
                            operationsDonePerThread[k] + 1
                     /\ completed'[k] = completed[k] + 1
                     /\ workerPc'[k] = "test"
                ELSE /\ benchOutcome' = "exit1"
                     /\ ~keyRemoved'
                     /\ mainPc' \notin {"report", "done"}]_vars
    /\ [][benchOutcome = "running"]_vars
    /\ [](benchOutcome = "exit1" =>
             \E k \in Ids : lastResult[k] \notin {"none", "OK", "LOOKUP_ERROR"})

C15_Witness ==
    /\ benchOutcome = "exit1"
    /\ threads = 2
    /\ lastResult[0] = "LOOKUP_ERROR"
    /\ completed[0] = 1
    /\ lastResult[1] = "TIMEOUT"

\* C16: an exception of writeEx in a thread ends the process with status 1.
C16_WriteExceptionExits1 ==
    \A k \in Ids : lastResult[k] = "exception" => benchOutcome = "exit1"

\* C17: with every thread scheduled fairly and every operation returning,
\* the process ends; when it ends by the return of main every thread has
\* finished and so has the timer, also when only main stored true in exit.
C17_Terminates ==
    /\ <>(benchOutcome # "running")
    /\ [](benchOutcome = "exit0" =>
             /\ timerPc = "done"
             /\ \A k \in Ids : workerPc[k] = "done")

C17_Witness ==
    /\ benchOutcome = "exit0"
    /\ timerPc = "done"
    /\ exitSetBy = {"main"}
    /\ threads = 2
    /\ totalOperationsDone = totalOperations
    /\ totalOperations = 2

\* C22: a thread goes into an operation only from a load of exit that
\* gave false, and from a load that gave true it goes to its end; so a
\* thread makes at most one operation while exit is true; a thread that is
\* in an operation leaves it only by the return of the operation, which is
\* counted, and reaches its end only from the loop test.
C22_ObservedBetweenOperations ==
    /\ [](\A k \in Ids :
             /\ lateOperations[k] <= 1
             /\ (sawExit[k] /\ benchOutcome = "running") =>
                    workerPc[k] = "done")
    /\ [][\A k \in Ids :
            /\ (workerPc[k] # "operation" /\ workerPc'[k] = "operation") =>
                   (workerPc[k] = "test" /\ ~exit /\ ~sawExit'[k])
            /\ (workerPc[k] = "test" /\ exit) => workerPc'[k] # "operation"
            /\ (workerPc[k] = "operation" /\ workerPc'[k] # "operation") =>
                   /\ workerPc'[k] = "test"
                   /\ completed'[k] = completed[k] + 1
                   /\ operationsDonePerThread'[k] =
                          operationsDonePerThread[k] + 1
            /\ (workerPc[k] # "done" /\ workerPc'[k] = "done") =>
                   workerPc[k] = "test"]_vars

C22_Witness ==
    /\ benchOutcome = "exit0"
    /\ \E k \in Ids :
          /\ lateOperations[k] = 1
          /\ sawExit[k]
          /\ completed[k] = 1
          /\ numOperations[k] = 2

\* main takes the step of line 342-343 for the thread mainI
ReadsCount ==
    /\ mainPc = "join"
    /\ mainI' # mainI \/ mainPc' # mainPc

\* C23: the count of thread k changes only in a step of thread k, from one
\* of its operations, and main reads it only when thread k has ended; main
\* never reads the count of a thread that still runs.
C23_CounterOwnership ==
    [][/\ \A k \in Ids :
             operationsDonePerThread'[k] # operationsDonePerThread[k] =>
                 /\ workerPc[k] = "operation"
                 /\ workerPc'[k] = "test"
                 /\ \A j \in Ids \ {k} :
                       /\ workerPc'[j] = workerPc[j]
                       /\ operationsDonePerThread'[j]
                              = operationsDonePerThread[j]
                 /\ mainPc' = mainPc
       /\ ReadsCount =>
             /\ workerPc[mainI] = "done"
             /\ totalOperationsDone' =
                    totalOperationsDone + operationsDonePerThread[mainI]
             /\ operationsDonePerThread' = operationsDonePerThread
       /\ totalOperationsDone' # totalOperationsDone => ReadsCount]_vars

C23_Witness ==
    /\ mainPc = "join"
    /\ mainI = 1
    /\ totalOperationsDone = 1
    /\ workerPc[1] = "operation"
    /\ operationsDonePerThread[1] = 0

AllDone == \A k \in Ids : workerPc[k] = "done"

\* C24: main samples the start time before it starts a thread and the end
\* time after it has joined them all; it stores true in exit and joins the
\* timer after that, removes the key when the threads and the timer have
\* ended, so that no operation follows the removal, and reports last.
C24_OrchestratorOrdering ==
    /\ [](/\ mainPc = "start" =>
                /\ timerPc = "unstarted"
                /\ \A k \in Ids : workerPc[k] = "unstarted"
          /\ mainPc \in {"start", "timer", "spawn", "join"} => endNanos = 0
          /\ mainPc \in {"setExit", "joinTimer", "remove", "report", "done"}
                => AllDone
          /\ "main" \in exitSetBy <=>
                mainPc \in {"joinTimer", "remove", "report", "done"}
          /\ mainPc \in {"remove", "report", "done"} => timerPc = "done"
          /\ keyRemoved <=> mainPc \in {"report", "done"}
          /\ keyRemoved => AllDone /\ timerPc = "done"
          /\ opsPerSecFile # Unwritten => keyRemoved
          /\ benchOutcome = "exit0" <=> mainPc = "done")
    /\ [][/\ startNanos' # startNanos =>
               \A k \in Ids : workerPc[k] = "unstarted"
          /\ endNanos' # endNanos => AllDone
          /\ keyRemoved =>
               /\ completed' = completed
               /\ lastResult' = lastResult
               /\ workerPc' = workerPc
               /\ timerPc' = timerPc
               /\ mainPc' = "done"]_vars

C24_Witness ==
    /\ benchOutcome = "exit0"
    /\ keyRemoved
    /\ threads = 2
    /\ completed[0] = 1
    /\ completed[1] = 1
    /\ startNanos < endNanos
    /\ exitSetBy = {"main"}

\* the timer, in its step of lines 304-307, finds the timeout exceeded
TimerExpires ==
    /\ timerPc = "sleep"
    /\ timerPc' = "test"
    /\ timeNanos(now') - timerStart > timeout

\* main takes its step of line 346
MainSetsExit ==
    /\ mainPc = "setExit"
    /\ mainPc' = "joinTimer"
    /\ AllDone

\* C25: exit is false at first and goes from false to true only; true is
\* stored only by the timer, when the time since its start is greater than
\* the timeout, or by main when it has joined every thread; no step of a
\* thread changes exit.
C25_FlagTransitions ==
    /\ [](/\ mainPc \in {"start", "timer"} => ~exit
          /\ exit <=> exitSetBy # {}
          /\ exitSetBy \subseteq {"timer", "main"}
          /\ "timer" \in exitSetBy =>
                timeNanos(now) - timerStart > timeout
          /\ "main" \in exitSetBy => AllDone)
    /\ [][/\ exit => exit'
          /\ exitSetBy \subseteq exitSetBy'
          /\ ("timer" \in exitSetBy' \ exitSetBy) => TimerExpires
          /\ ("main" \in exitSetBy' \ exitSetBy) => MainSetsExit
          /\ (~exit /\ exit') => (TimerExpires \/ MainSetsExit)
          /\ workerPc' # workerPc => (exit' = exit /\ exitSetBy' = exitSetBy)
         ]_vars

C25_Witness ==
    /\ exit
    /\ exitSetBy = {"timer"}
    /\ \E k \in Ids : workerPc[k] = "operation"
    /\ timeNanos(now) - timerStart > timeout

\* the seconds of line 358 as a fraction in lowest terms
Seconds ==
    LET nanos == endNanos - startNanos
        g == Gcd(nanos, 1000000000)
    IN  [num |-> nanos \div g, den |-> 1000000000 \div g]

\* C21: the rate main writes is the total divided by the seconds between
\* the two times, 50000 for 100000 operations in 2000000000 ns, and the
\* file is written only when --opsPerSecFile names one.
C21_Throughput ==
    /\ opsPerSecFileName = "" => opsPerSecFile = Unwritten
    /\ benchOutcome # "exit0" => opsPerSecFile = Unwritten
    /\ (benchOutcome = "exit0" /\ opsPerSecFileName # "") =>
          /\ opsPerSecFile # Unwritten
          /\ endNanos # startNanos =>
                /\ opsPerSecFile.kind = "finite"
                /\ opsPerSecFile.den > 0
                /\ opsPerSecFile.num * Seconds.num
                       = totalOperationsDone * Seconds.den * opsPerSecFile.den
          /\ (totalOperationsDone = 100000
                 /\ endNanos - startNanos = 2000000000) =>
                opsPerSecFile = [kind |-> "finite", num |-> 50000, den |-> 1]

C21_Witness ==
    /\ benchOutcome = "exit0"
    /\ opsPerSecFileName # ""
    /\ totalOperationsDone = 100000
    /\ endNanos - startNanos = 2000000000
    /\ opsPerSecFile = [kind |-> "finite", num |-> 50000, den |-> 1]

-----------------------------------------------------------------------------
(* The host:port list functions: properties *)

HasColon(item) == \E k \in 1..Len(item) : item[k] = ":"

\* C18: when parseHostPortList accepts the input and returns L, it accepts
\* joinHostPortList(L) and returns L again: the same pairs in the same order.
C18_RoundTrip ==
    listPc = "reparsed" =>
        /\ listReparsed.ok
        /\ listReparsed.list = listHosts

C18_Witness ==
    /\ listPc = "reparsed"
    /\ Len(listHosts) = 2
    /\ listHosts[1].host = EmptyStr
    /\ HasColon(listHosts[1].port)
    /\ listHosts[2].port = EmptyStr
    /\ listReparsed.list = listHosts

\* C19: when an item of the input has no colon, parseHostPortList ends in
\* the PANIC that names the first such item and returns no list, however
\* many items with a colon come before it; otherwise each item is cut at its
\* first colon: the host has no colon and host, colon, port is the item.
C19_ParseError ==
    listPc # "start" =>
        LET items == GetLines(listInput)
            badAt == {j \in 1..Len(items) : ~HasColon(items[j])}
        IN  IF badAt # {}
            THEN /\ listPc = "panic"
                 /\ listHosts = <<>>
                 /\ \E j \in badAt :
                       /\ \A k \in badAt : j <= k
                       /\ listBad = items[j]
            ELSE /\ listPc # "panic"
                 /\ Len(listHosts) = Len(items)
                 /\ \A j \in 1..Len(items) :
                       /\ ~HasColon(listHosts[j].host)
                       /\ listHosts[j].host \o <<":">> \o listHosts[j].port
                              = items[j]

C19_Witness ==
    /\ listPc = "panic"
    /\ Len(GetLines(listInput)) = 3
    /\ HasColon(GetLines(listInput)[1])
    /\ HasColon(GetLines(listInput)[2])
    /\ listBad = <<"h">>
    /\ listHosts = <<>>

KeepsPort(e) == e.port # listExcluded

\* C20: the list left by the erase/remove_if holds the pairs of the parsed
\* list whose port is not the excluded port, each as often as in the parsed
\* list and in the same relative order.
C20_Without ==
    listPc = "removed" =>
        /\ listRemaining = SelectSeq(listHosts, KeepsPort)
        /\ \A e \in {listHosts[j] : j \in 1..Len(listHosts)} :
              Cardinality({j \in 1..Len(listRemaining) : listRemaining[j] = e})
                  = IF e.port = listExcluded THEN 0
                    ELSE Cardinality({j \in 1..Len(listHosts) :
                                         listHosts[j] = e})

C20_Witness ==
    /\ listPc = "removed"
    /\ Len(listHosts) = 3
    /\ listHosts[1].port = listExcluded
    /\ listHosts[3].port = listExcluded
    /\ Len(listRemaining) = 1

=============================================================================
